---- MODULE Spec2Model ----
(***************************************************************************)
(* Verification model of the TikTok-Page-Downloader toolkit.               *)
(*                                                                         *)
(*  - the download orchestrator (src/1.py, main and its helpers): repeated *)
(*    runs over links.txt, the ledger downloads.csv, the error ledger      *)
(*    errors.csv and the collection directory, with process crashes;       *)
(*  - the pack tool (src/Utility Functions/pack_indices.py).               *)
(*                                                                         *)
(* Strings are modelled as tuples of tokens: a token stands for one        *)
(* character class run of the real string ("3" a digit, "." a dot, " " a   *)
(* blank, "mp4" a word, ...).  File names, titles and URL paths are such   *)
(* tuples, and the string functions of the code are computed on them.      *)
(*                                                                         *)
(* Writes to downloads.csv and errors.csv are assumed not to raise; the    *)
(* exceptions the model raises are those of the external tools and of the  *)
(* metadata handling.  A crash (kill, power loss) is a separate action.    *)
(***************************************************************************)
EXTENDS Integers, Sequences, FiniteSets, TLC

\* ------------------------------------------------------------------ bounds
MaxInput == 3      \* longest links.txt
MaxRuns == 2       \* runs of the orchestrator (crashed ones included)
MaxRows == 3       \* longest ledger handed to the pack tool
MaxSegs == 4       \* most segments (empty ones included) of a URL path
MaxName == 4       \* longest string handed to the sanitizer alone
MaxTrimTitle == 3  \* longest title handed to trim_fs_component alone
MaxLimit == 8      \* largest limit handed to trim_fs_component alone
MaxReserve == 3    \* largest reserve_ext handed to trim_fs_component alone

\* ------------------------------------------------------- generic helpers
Range(s) == {s[i] : i \in DOMAIN s}

IsPrefix(s, t) == Len(s) <= Len(t) /\ SubSeq(t, 1, Len(s)) = s

StartsWith(s, p) == IsPrefix(p, s)

MaxOf(S) == CHOOSE m \in S : \A x \in S : x <= m

MinOf(S) == CHOOSE m \in S : \A x \in S : m <= x

\* the elements of s at the positions in keep, in order
Pick(s, keep) ==
    [k \in 1..Cardinality(keep) |->
        s[CHOOSE i \in keep : Cardinality({j \in keep : j <= i}) = k]]

NoItem == [index |-> 0]

\* ------------------------------------------------------------- constants
\* src/1.py:33-35
IMAGE_EXTS == {"jpg", "jpeg", "png", "webp"}
AUDIO_EXTS == {"m4a", "mp3", "aac", "wav", "ogg"}
VIDEO_EXTS == {"mp4", "webm", "mkv", "mov"}

DIGITS == <<"0", "1", "2", "3", "4", "5", "6", "7", "8", "9">>

IsDigit(tok) == tok \in Range(DIGITS)

\* str(n) for the indices of the model (at most two digits)
Str(n) ==
    IF n < 10 THEN <<DIGITS[n + 1]>>
    ELSE <<DIGITS[(n \div 10) + 1], DIGITS[(n % 10) + 1]>>

DigitVal(tok) == CHOOSE d \in 0..9 : DIGITS[d + 1] = tok

\* whether int(cell) succeeds, and its value (cells of at most two digits)
IsInt(cell) == cell # <<>> /\ \A i \in DOMAIN cell : IsDigit(cell[i])

IntOf(cell) ==
    IF Len(cell) = 1 THEN DigitVal(cell[1])
    ELSE 10 * DigitVal(cell[Len(cell) - 1]) + DigitVal(cell[Len(cell)])

\* ------------------------------------------------------------------ URLs
\* A URL is the tuple of the non-empty segments of its path.
UrlVideo1 == <<"@alice", "video", "1234567890123">>
UrlVideo2 == <<"@bob", "video", "2234567890123">>
UrlPhoto1 == <<"@alice", "photo", "3234567890123">>

URLS == {UrlVideo1, UrlVideo2, UrlPhoto1}

\* the segments that start with "@", and those that are all digits
USER_SEGS == {"@alice", "@bob", "@"}
ID_SEGS == {"1234567890123", "2234567890123", "3234567890123"}

\* src/1.py:120, [s for s in path.split('/') if s]: a doubled or trailing
\* slash gives an empty segment
NonEmptySegs(path) == SelectSeq(path, LAMBDA seg : seg # "")

\* variant: the first three segments are looked at, however many there are
is_slideshow_FirstThree(url) ==
    /\ Len(NonEmptySegs(url)) >= 3
    /\ NonEmptySegs(url)[1] \in USER_SEGS
    /\ NonEmptySegs(url)[2] = "photo"
    /\ NonEmptySegs(url)[3] \in ID_SEGS

\* src/1.py:114-126
is_slideshow(url) ==
    /\ Len(NonEmptySegs(url)) = 3
    /\ NonEmptySegs(url)[1] \in USER_SEGS
    /\ NonEmptySegs(url)[2] = "photo"
    /\ NonEmptySegs(url)[3] \in ID_SEGS

\* src/1.py:434
KindOf(url) == IF is_slideshow(url) THEN "photo" ELSE "video"

\* ---------------------------------------------------------------- titles
TitleReal == <<"My", " ", "Cool", " ", "Clip", "?">>
TitlePlaceholderVideo == <<"TikTok", " ", "video", " ", "#", "1", "2", "3">>
TitlePlaceholderPhoto == <<"tiktok", "_", "3234567890123">>
Blank == <<>>

\* what the metadata query yields for a video post (a post's title does not
\* change between attempts), and what the first image's file name may yield
VideoTitleOf(url) == IF url[1] = "@alice" THEN TitleReal ELSE TitlePlaceholderVideo
RAW_PHOTO_TITLES == {TitleReal, TitlePlaceholderPhoto}

Lower(tok) == IF tok = "TikTok" THEN "tiktok" ELSE IF tok = "Clip" THEN "clip" ELSE tok

\* str.lstrip(): drop the leading blanks
LStrip(t) ==
    LET first == MinOf({i \in DOMAIN t : t[i] # " "} \cup {Len(t) + 1})
    IN  SubSeq(t, first, Len(t))

\* str.rstrip(chars): drop the trailing tokens that are in chars
RStrip(t, chars) ==
    LET last == MaxOf({i \in DOMAIN t : t[i] \notin chars} \cup {0})
    IN  SubSeq(t, 1, last)

Strip(t) == RStrip(LStrip(t), {" "})

\* the optional "\s*#\d+" tail of the placeholder patterns
AllDigits(t) == \A i \in DOMAIN t : IsDigit(t[i])

HashTail(t) ==
    \/ t = <<>>
    \/ LET u == LStrip(t) IN Len(u) >= 2 /\ u[1] = "#" /\ AllDigits(Tail(u))

\* ^\s*tiktok\s+<word>(?:\s*#\d+)?\s*$ , case-insensitive
MatchesNoTitle(t, word) ==
    LET s == Strip(t) IN
    /\ Len(s) >= 3
    /\ Lower(s[1]) = "tiktok"
    /\ s[2] = " "
    /\ LET r == LStrip(SubSeq(s, 2, Len(s))) IN
       /\ r # <<>>
       /\ Lower(r[1]) = word
       /\ HashTail(Tail(r))

\* src/1.py:135-138
is_placeholder_video_title(title) ==
    IF title = <<>> THEN TRUE ELSE MatchesNoTitle(title, "video")

\* src/1.py:140-147
is_placeholder_slide_title(title, post_id) ==
    IF title = <<>> THEN TRUE
    ELSE \/ LET s == Strip(title) IN
            \/ (Len(s) = 3 /\ Lower(s[1]) = "tiktok" /\ s[2] = "_" /\ s[3] = post_id)
            \/ s = <<post_id>>
         \/ MatchesNoTitle(title, "photo")

\* src/1.py:130, str(int(time.time()))
FALLBACK_ID == "<time>"

\* src/1.py:128-130, re.search(r"/(\d{8,})/?$", ...): the last segment if it is
\* a run of 8 or more digits, or the one before a single trailing slash
extract_post_id(url) ==
    IF Len(url) >= 1 /\ url[Len(url)] \in ID_SEGS THEN url[Len(url)]
    ELSE IF Len(url) >= 2 /\ url[Len(url)] = "" /\ url[Len(url) - 1] \in ID_SEGS
    THEN url[Len(url) - 1]
    ELSE FALLBACK_ID

\* ------------------------------------------------------------- sanitizer
\* src/1.py:37
FORBIDDEN == {"<", ">", ":", "\"", "/", "\\", "|", "?", "*"}

\* src/1.py:38-42
WINDOWS_RESERVED == {"CON", "PRN", "AUX", "NUL", "COM1", "LPT1"}

\* src/1.py:62
ReplaceForbidden(t) == [i \in DOMAIN t |-> IF t[i] \in FORBIDDEN THEN "_" ELSE t[i]]

\* src/1.py:64, re.sub(r' {2,}', ' ', s): a run of blanks becomes one blank
CollapseSpaces(t) ==
    Pick(t, {i \in DOMAIN t : ~(t[i] = " " /\ i > 1 /\ t[i - 1] = " ")})

\* src/1.py:60, unicodedata.normalize("NFKC", name): the full-width question
\* mark becomes "?", the ideographic space a blank
NFKC(tok) == IF tok = "U+FF1F" THEN "?" ELSE IF tok = "U+3000" THEN " " ELSE tok

Normalize(t) == [i \in DOMAIN t |-> NFKC(t[i])]

\* src/1.py:61, ch.isprintable() and ord(ch) >= 32: control characters go
Printable(tok) == tok \notin {"\t", "\n", "\r"}

DropUnprintable(t) == SelectSeq(t, Printable)

\* src/1.py:66, stem.upper()
Upper(tok) == IF tok = "con" THEN "CON" ELSE tok

\* src/1.py:65, s.split('.', 1)[0]: what stands before the first dot
FirstDot(t) == MinOf({i \in DOMAIN t : t[i] = "."} \cup {Len(t) + 1})

\* src/1.py:65-67: a reserved device name before the first dot gets a "_"
AppendIfReserved(t) ==
    IF FirstDot(t) = 2 /\ Upper(t[1]) \in WINDOWS_RESERVED THEN t \o <<"_">> ELSE t

\* variant: the forbidden characters are replaced before the normalization
sanitize_ReplaceFirst(name) ==
    AppendIfReserved(Strip(CollapseSpaces(DropUnprintable(Normalize(ReplaceForbidden(name))))))

\* src/1.py:56-70 (max_len is None at every call of the orchestrator; after
\* line 61 no \r, \n or \t is left for line 63 to replace)
sanitize_filename_keep_readables(name) ==
    AppendIfReserved(Strip(CollapseSpaces(ReplaceForbidden(DropUnprintable(Normalize(name))))))

\* The sanitizer tabulated over the titles of the model and their sanitized
\* forms (main sanitizes the title and download_video sanitizes it again).
RAW_TITLES == {Blank, TitleReal, TitlePlaceholderVideo, TitlePlaceholderPhoto}

TITLES == RAW_TITLES \cup {sanitize_filename_keep_readables(t) : t \in RAW_TITLES}

SafeTitle == [t \in TITLES |-> sanitize_filename_keep_readables(t)]

\* src/1.py:135-138 tabulated over the titles of the model
PlaceholderVideoTitles == {t \in TITLES : is_placeholder_video_title(t)}

\* s[:n] for n >= 0
Take(s, n) == SubSeq(s, 1, IF n < Len(s) THEN n ELSE Len(s))

Max2(a, b) == IF a >= b THEN a ELSE b

\* variant: no room is kept for the extension
trim_fs_component_NoReserve(prefix, title, limit, reserve_ext) ==
    LET stem == IF title # <<>> THEN prefix \o <<".", " ">> \o title ELSE prefix
        max_stem == Max2(1, limit)
        room_for_title == max_stem - (Len(prefix) + 2)
    IN  IF Len(stem) <= max_stem THEN RStrip(stem, {".", " "})
        ELSE IF title # <<>>
        THEN IF room_for_title < 0
             THEN RStrip(Take(prefix, max_stem), {".", " "})
             ELSE RStrip(prefix \o <<".", " ">>
                            \o RStrip(Take(title, room_for_title), {".", " "}),
                         {".", " "})
        ELSE RStrip(Take(prefix, max_stem), {".", " "})

\* variant: the shortened title is cut and nothing is stripped afterwards
trim_fs_component_NoRStrip(prefix, title, limit, reserve_ext) ==
    LET stem == IF title # <<>> THEN prefix \o <<".", " ">> \o title ELSE prefix
        max_stem == Max2(1, limit - Max2(0, reserve_ext))
        room_for_title == max_stem - (Len(prefix) + 2)
    IN  IF Len(stem) <= max_stem THEN RStrip(stem, {".", " "})
        ELSE IF title # <<>>
        THEN IF room_for_title < 0
             THEN Take(prefix, max_stem)
             ELSE prefix \o <<".", " ">> \o Take(title, room_for_title)
        ELSE Take(prefix, max_stem)

\* src/1.py:72-88.  The length of a string is the number of its tokens (the
\* titles of the orchestrator's model are far shorter than 199 either way).
trim_fs_component(prefix, title, limit, reserve_ext) ==
    LET stem == IF title # <<>> THEN prefix \o <<".", " ">> \o title ELSE prefix
        max_stem == Max2(1, limit - Max2(0, reserve_ext))
        room_for_title == max_stem - (Len(prefix) + 2)
    IN  IF Len(stem) <= max_stem THEN RStrip(stem, {".", " "})
        ELSE IF title # <<>>
        THEN IF room_for_title < 0
             THEN RStrip(Take(prefix, max_stem), {".", " "})
             ELSE RStrip(prefix \o <<".", " ">>
                            \o RStrip(Take(title, room_for_title), {".", " "}),
                         {".", " "})
        ELSE RStrip(Take(prefix, max_stem), {".", " "})

\* ------------------------------------------------------------ collection
\* An item of the collection directory: its name, whether it is a file or
\* a directory, and the post (URL id) its content came from.
Item(name, kind, id) == [name |-> name, kind |-> kind, id |-> id]

\* creating or overwriting a path
PutItem(dir, item) == {x \in dir : x.name # item.name} \cup {item}

\* pathlib's suffix: the last dot and what follows it ("" when there is none)
LastDot(name) == MaxOf({i \in DOMAIN name : name[i] = "."} \cup {0})

Suffix(name) ==
    LET d == LastDot(name) IN
    IF d <= 1 \/ d = Len(name) THEN <<>> ELSE SubSeq(name, d, Len(name))

HasExt(name, exts) ==
    LET sfx == Suffix(name) IN Len(sfx) = 2 /\ sfx[2] \in exts

\* src/1.py:241, root.glob(f"{stem}.*") filtered to video files
ProducedVideos(dir, stem) ==
    {p \in dir : /\ StartsWith(p.name, stem \o <<".">>)
                 /\ HasExt(p.name, VIDEO_EXTS)
                 /\ p.kind = "file"}

\* ============================================================ pack tool
\* src/Utility Functions/pack_indices.py.  File names are token tuples as
\* above; \w matches the tokens that stand for letters, digits and "_".
NON_WORD == {".", " ", "#"} \cup FORBIDDEN

IsWordTok(tok) == tok \notin NON_WORD

\* the tokens of the pack model's names, lower-cased, in the order of Python's
\* string comparison (blank < dot < digits < underscore < letters)
TOKEN_ORDER ==
    <<" ", ".", "0", "1", "2", "3", "4", "5", "6", "7", "8", "9",
      "clip", "mp4">>

TokRank(tok) == CHOOSE k \in DOMAIN TOKEN_ORDER : TOKEN_ORDER[k] = Lower(tok)

\* a.lower() < b.lower()
NameLess(a, b) ==
    \E k \in 1..(Len(b)) :
        /\ \A i \in 1..(k - 1) : i <= Len(a) /\ Lower(a[i]) = Lower(b[i])
        /\ \/ k = Len(a) + 1
           \/ k <= Len(a) /\ TokRank(a[k]) < TokRank(b[k])

\* the end of the "^\s*" and of the "(\d+)" that open the four patterns
BlanksEnd(name) == MinOf({i \in DOMAIN name : name[i] # " "} \cup {Len(name) + 1}) - 1

DigitsEnd(name) ==
    MinOf({i \in DOMAIN name : i > BlanksEnd(name) /\ ~IsDigit(name[i])}
          \cup {Len(name) + 1}) - 1

\* src/Utility Functions/pack_indices.py:19-37.  found is FALSE for (None, None).
parse_index(name) ==
    LET b == BlanksEnd(name)
        d == DigitsEnd(name)
        after == SubSeq(name, d + 1, Len(name))
        idx == IntOf(SubSeq(name, b + 1, d))
    IN  IF d = b THEN [found |-> FALSE, idx |-> 0, rest |-> <<>>]
        ELSE IF Len(after) >= 2 /\ after[1] = "." /\ after[2] = " "
        THEN [found |-> TRUE, idx |-> idx, rest |-> after]
        ELSE IF after # <<>> /\ after[1] = " "
        THEN [found |-> TRUE, idx |-> idx, rest |-> after]
        ELSE IF /\ Len(after) >= 2
                /\ after[1] = "."
                /\ \A i \in 2..Len(after) : IsWordTok(after[i])
        THEN [found |-> TRUE, idx |-> idx, rest |-> after]
        ELSE IF after = <<>>
        THEN [found |-> TRUE, idx |-> idx, rest |-> <<>>]
        ELSE [found |-> FALSE, idx |-> 0, rest |-> <<>>]

\* src/Utility Functions/pack_indices.py:39-57: old index -> item; of the
\* items with one index the first in the order of the lower-cased names is kept
list_items(dir) ==
    LET indexed == {p \in dir : parse_index(p.name).found}
        keys == {parse_index(p.name).idx : p \in indexed}
    IN  [i \in keys |->
            CHOOSE p \in indexed :
                /\ parse_index(p.name).idx = i
                /\ \A q \in indexed :
                     (parse_index(q.name).idx = i /\ q # p) => NameLess(p.name, q.name)]

\* variant: enumerate(sorted(keys), start=0)
compute_new_indices_FromZero(index_to_path) ==
    [old_i \in DOMAIN index_to_path |->
        Cardinality({k \in DOMAIN index_to_path : k < old_i})]

\* src/Utility Functions/pack_indices.py:59-67: enumerate(sorted(keys), start=1)
compute_new_indices(index_to_path) ==
    [old_i \in DOMAIN index_to_path |->
        Cardinality({k \in DOMAIN index_to_path : k <= old_i})]

\* src/Utility Functions/pack_indices.py:206-207
contiguous(index_to_path) ==
    \A old \in DOMAIN index_to_path :
        Cardinality({k \in DOMAIN index_to_path : k <= old}) = old

\* src/Utility Functions/pack_indices.py:69-86
build_final_name(name, new_index) == Str(new_index) \o parse_index(name).rest

\* src/Utility Functions/pack_indices.py:98: the tag of one call (a fresh uuid)
TMP_TAG == "__t__"

CONFLICT_TAG == "__conflict__a1b2c3"

\* src/Utility Functions/pack_indices.py:107-112
\* (the uuid of a call is modelled by the number of the call)
TmpName(item, old_idx, run) ==
    IF item.kind = "file"
    THEN <<TMP_TAG>> \o Str(run) \o <<"_">> \o Str(old_idx) \o Suffix(item.name)
    ELSE <<TMP_TAG>> \o Str(run) \o <<"_">> \o Str(old_idx)

\* src/Utility Functions/pack_indices.py:117-119: a left-over temporary name
UniqueTmpName(item, old_idx, run) ==
    IF item.kind = "file"
    THEN <<TMP_TAG>> \o Str(run) \o <<"_">> \o Str(old_idx) \o <<"_", "a1b2">>
            \o Suffix(item.name)
    ELSE <<TMP_TAG>> \o Str(run) \o <<"_">> \o Str(old_idx) \o <<"_", "a1b2">>

\* src/Utility Functions/pack_indices.py:126-135
ConflictName(final_name, kind) ==
    IF kind = "file"
    THEN SubSeq(final_name, 1, Len(final_name) - Len(Suffix(final_name)))
            \o <<CONFLICT_TAG>> \o Suffix(final_name)
    ELSE final_name \o <<CONFLICT_TAG>>

Names(dir) == {p.name : p \in dir}

\* Path.rename: the item takes the new name (and the place of what had it)
Rename(dir, old_name, new_name) ==
    {p \in dir : p.name # old_name /\ p.name # new_name}
        \cup {Item(new_name, p.kind, p.id) : p \in {q \in dir : q.name = old_name}}

\* src/Utility Functions/pack_indices.py:173-183: the rows kept, with the new
\* index of their old index; a row whose index is no integer or not on disk goes
KeptRows(csv_rows, index_mapping, existing_old_indices_set) ==
    LET keep == {i \in DOMAIN csv_rows :
                    /\ IsInt(csv_rows[i].index)
                    /\ IntOf(csv_rows[i].index) \in existing_old_indices_set}
        rows == Pick(csv_rows, keep)
    IN  [i \in DOMAIN rows |->
            [index |-> Str(index_mapping[IntOf(rows[i].index)]),
             title |-> rows[i].title, url |-> rows[i].url]]

\* src/Utility Functions/pack_indices.py:187: list.sort by int(r[0]), stable
SortByIndex(kept) ==
    LET n == Len(kept)
        place(j) == Cardinality({k \in 1..n :
                        \/ IntOf(kept[k].index) < IntOf(kept[j].index)
                        \/ IntOf(kept[k].index) = IntOf(kept[j].index) /\ k <= j})
    IN  [r \in 1..n |-> kept[CHOOSE j \in 1..n : place(j) = r]]

\* src/Utility Functions/pack_indices.py:188-189
Renumber(kept) == [i \in DOMAIN kept |-> [kept[i] EXCEPT !.index = Str(i)]]

\* src/Utility Functions/pack_indices.py:169-190, the kept rows
sync_csv_to_mapping(csv_rows, index_mapping, existing_old_indices_set) ==
    Renumber(SortByIndex(KeptRows(csv_rows, index_mapping, existing_old_indices_set)))

\* src/Utility Functions/pack_indices.py:145-160
load_csv(exists, rows) == IF exists THEN rows ELSE <<>>

\* ================================================================ state
VARIABLES
    csv,             \* downloads.csv on disk: the rows after the header
    csvExists,       \* whether downloads.csv exists
    errs,            \* errors.csv: its rows
    coll,            \* the collection directory: a set of items
    pc,              \* where the orchestrator is: idle | loop | item | sync | done | crashed
    runs,            \* runs started so far
    input,           \* the URLs of links.txt (input_urls during a run)
    pos,             \* position of the for loop in input_urls
    existing_urls,   \* main's existing_urls
    seen_this_run,   \* main's seen_this_run
    next_index,      \* main's next_index
    failed_indices,  \* main's failed_indices
    buf,             \* rows written to the open ledger file and not yet flushed
    cur,             \* the item being processed (index, url, kind, ...)
    csv0,            \* history: the ledger when the run started
    errs0,           \* history: the error ledger when the run started
    assigned,        \* history: the (index, url, kind) assigned in this run, in order
    completed,       \* history: how many loop iterations of this run have ended
    pack,            \* the pack tool: where it is, index_to_path, mapping, moved
    call             \* one call of a helper function: its arguments and result

vars == <<csv, csvExists, errs, coll, pc, runs, input, pos, existing_urls,
          seen_this_run, next_index, failed_indices, buf, cur, csv0, errs0,
          assigned, completed, pack, call>>

\* what the pack tool leaves alone until it rewrites the ledger
orchVars == <<csv, csvExists, errs, coll, pc, runs, input, pos, existing_urls,
              seen_this_run, next_index, failed_indices, buf, cur, csv0, errs0,
              assigned, completed, call>>

\* no helper call is being looked at
NoCall == [fn |-> "none", done |-> FALSE]

\* the pack tool before main is called; done counts the turns of the second
\* loop; coll_at_start and csv_at_start are history (what main found)
\* run counts the starts of pack, interrupted says whether one of them was
\* stopped half-way; coll_first and csv_first are what the first start found;
\* thumbs is the thumbnail cache of the archive builder: index -> the video the
\* picture was made from; shown is what the last rendering put on its cards
PackIdle == [pc |-> "idle", index_to_path |-> <<>>, mapping |-> <<>>,
             moved |-> <<>>, done |-> 0, coll_at_start |-> {}, csv_at_start |-> <<>>,
             run |-> 1, interrupted |-> FALSE, coll_first |-> {}, csv_first |-> <<>>,
             thumbs |-> <<>>, shown |-> {}]

\* a row of downloads.csv: three text cells (src/1.py:458, writerow)
Row(index, title, url) == [index |-> Str(index), title |-> title, url |-> url]

ErrRow(index, kind, url, msg) == [index |-> index, kind |-> kind, url |-> url, msg |-> msg]

\* ------------------------------------------------------- ledger helpers
\* src/1.py:342-369: the urls of load_existing_csv
LoadedUrls(rows) == {rows[i].url : i \in {j \in DOMAIN rows : IsInt(rows[j].index)}}

\* src/1.py:342-369: max_idx of load_existing_csv (0 for a missing or empty file)
LoadedMax(rows) ==
    MaxOf({IntOf(rows[i].index) : i \in {j \in DOMAIN rows : IsInt(rows[j].index)}}
          \cup {0})

\* variant: the next index without the increment
FirstIndex_NoIncrement(max_existing) == IF max_existing > 0 THEN max_existing ELSE 1

\* src/1.py:397
FirstIndex(max_existing) == IF max_existing > 0 THEN max_existing + 1 ELSE 1

\* variant: only the ledger is consulted, not the URLs seen in this run
ShouldSkip_LedgerOnly(url, existing, seen) == url \in existing

\* src/1.py:420-428
ShouldSkip(url, existing, seen) == url \in existing \/ url \in seen

\* variant: the buffered rows never reach the disk
SyncedCsv_NoFlush(durable, buffered) == durable

\* src/1.py:458-460 and 468-470: flush() and fsync() move the buffered rows to disk
SyncedCsv(durable, buffered) == durable \o buffered

\* ------------------------------------------------------------ downloads
\* src/1.py:440-442: title_for_csv, blank for a placeholder title
VideoCsvTitle(raw_title) ==
    IF raw_title \in PlaceholderVideoTitles THEN Blank ELSE raw_title

\* src/1.py:240-246: the glob for "<stem>.<video ext>" and the verdict.  dir is
\* the collection after yt-dlp ran.
VideoVerdict(stem, dir, rc) ==
    IF rc # 0 /\ ProducedVideos(dir, stem) = {}
    THEN [ok |-> FALSE, msg |-> "yt-dlp exit", dir |-> dir, produced |-> FALSE]
    ELSE IF ProducedVideos(dir, stem) = {}
    THEN [ok |-> FALSE, msg |-> "No output video file found", dir |-> dir,
          produced |-> FALSE]
    ELSE [ok |-> TRUE, msg |-> "ok", dir |-> dir, produced |-> TRUE]

\* src/1.py:235-238: yt-dlp runs with the output template "<stem>.%(ext)s"
AfterYtDlp(stem, url, dir, wrote) ==
    IF wrote THEN PutItem(dir, Item(stem \o <<".", "mp4">>, "file", extract_post_id(url)))
    ELSE dir

\* src/1.py:227-246.  rc is yt-dlp's exit code, wrote whether it left the
\* file "<stem>.mp4" behind.  The result is (success, message), with the
\* collection afterwards and whether the glob of line 241 found a video.
\* (The stem and the collection are each evaluated once and then bound.)
download_video(index, url, title_for_fs, dir, rc, wrote) ==
    CHOOSE result \in
        {VideoVerdict(stem, after, rc) :
            stem \in {trim_fs_component(Str(index), SafeTitle[title_for_fs], 199, 5)},
            after \in {AfterYtDlp(trim_fs_component(Str(index), SafeTitle[title_for_fs], 199, 5),
                                  url, dir, wrote)}} : TRUE

\* src/1.py:258
TmpDirName(post_id) == <<"_t_", post_id>>

\* variant: a slideshow without images is reported as a success
process_slideshow_NoRaise(index, url, dir, rc, images, raw, audio, fallback) ==
    [raised |-> FALSE, msg |-> "ok", title |-> Blank, dir |-> dir, sound |-> FALSE]

\* variant: the exit code of gallery-dl decides
process_slideshow_FailOnExitCode(index, url, dir, rc, images, raw, audio, fallback) ==
    [raised |-> rc # 0 \/ ~images, msg |-> "gallery-dl failed", title |-> Blank,
     dir |-> dir, sound |-> FALSE]

\* variant: the temporary directory is never removed
process_slideshow_KeepTmp(index, url, dir, rc, images, raw, audio, fallback) ==
    [raised |-> ~images, msg |-> "No images found", title |-> Blank,
     dir |-> PutItem(dir, Item(TmpDirName(extract_post_id(url)), "dir",
                               extract_post_id(url))),
     sound |-> FALSE]

\* The outcomes of the audio-only yt-dlp call of src/1.py:309-316: it leaves an
\* audio file, it leaves none (whatever its exit code), or subprocess.run
\* raises because the program cannot be started
FALLBACKS == {"audio", "none", "raise"}

\* src/1.py:248-328.  rc: the exit code of gallery-dl; images, audio: whether
\* it left an image, an audio file, in the temporary directory; raw: the title
\* inferred from the first image's file name; fallback: the outcome of the
\* audio-only call, made when there is no audio file.
\* The result is (raised, message, title_for_csv, collection, sound copied).
process_slideshow(index, url, dir, rc, images, raw, audio, fallback) ==
    LET post_id == extract_post_id(url)
        tmpdir == Item(TmpDirName(post_id), "dir", post_id)
        title == IF is_placeholder_slide_title(raw, post_id) THEN Blank ELSE raw
        folder_name == IF title = Blank
                       THEN trim_fs_component(Str(index), Blank, 199, 0)
                       ELSE trim_fs_component(Str(index), SafeTitle[title], 199, 0)
    IN  IF ~images
        THEN [raised |-> TRUE, msg |-> "No images found", title |-> Blank,
              dir |-> PutItem(dir, tmpdir), sound |-> FALSE]
        ELSE IF ~audio /\ fallback = "raise"
        THEN [raised |-> TRUE, msg |-> "No such file or directory: 'yt-dlp'",
              title |-> Blank,
              dir |-> PutItem(PutItem(dir, tmpdir), Item(folder_name, "dir", post_id)),
              sound |-> FALSE]
        ELSE [raised |-> FALSE, msg |-> "ok", title |-> title,
              dir |-> PutItem({x \in dir : x.name # tmpdir.name},
                              Item(folder_name, "dir", post_id)),
              sound |-> audio \/ fallback = "audio"]

\* ================================================================ actions
Init ==
    /\ csv = <<>>
    /\ csvExists = FALSE
    /\ errs = <<>>
    /\ coll = {}
    /\ pc = "idle"
    /\ runs = 0
    /\ input = <<>>
    /\ pos = 1
    /\ existing_urls = {}
    /\ seen_this_run = {}
    /\ next_index = 1
    /\ failed_indices = <<>>
    /\ buf = <<>>
    /\ cur = NoItem
    /\ csv0 = <<>>
    /\ errs0 = <<>>
    /\ assigned = <<>>
    /\ completed = 0
    /\ pack = PackIdle
    /\ call = NoCall

\* the operator adds a link to links.txt between two runs
EditLinks ==
    /\ pc \in {"idle", "done", "crashed"}
    /\ Len(input) < MaxInput
    /\ \E url \in URLS : input' = Append(input, url)
    /\ UNCHANGED <<pack, call, csv, csvExists, errs, coll, pc, runs, pos, existing_urls,
                   seen_this_run, next_index, failed_indices, buf, cur, csv0,
                   errs0, assigned, completed>>

\* src/1.py:388-412: read links.txt, load the ledger, open it for appending
StartRun ==
    /\ pc \in {"idle", "done", "crashed"}
    /\ runs < MaxRuns
    /\ runs' = runs + 1
    /\ existing_urls' = LoadedUrls(csv)
    /\ next_index' = FirstIndex(LoadedMax(csv))
    /\ csvExists' = TRUE
    /\ buf' = <<>>
    /\ failed_indices' = <<>>
    /\ seen_this_run' = {}
    /\ pos' = 1
    /\ cur' = NoItem
    /\ csv0' = csv
    /\ errs0' = errs
    /\ assigned' = <<>>
    /\ completed' = 0
    /\ pc' = "loop"
    /\ UNCHANGED <<pack, call, csv, errs, coll, input>>

\* src/1.py:415-428: a URL that is in the ledger or was seen in this run
SkipUrl ==
    /\ pc = "loop"
    /\ pos <= Len(input)
    /\ ShouldSkip(input[pos], existing_urls, seen_this_run)
    /\ pos' = pos + 1
    /\ UNCHANGED <<pack, call, csv, csvExists, errs, coll, pc, runs, input, existing_urls,
                   seen_this_run, next_index, failed_indices, buf, cur, csv0,
                   errs0, assigned, completed>>

\* src/1.py:429-435: a new URL gets the next index and its kind
AssignIndex ==
    /\ pc = "loop"
    /\ pos <= Len(input)
    /\ ~ShouldSkip(input[pos], existing_urls, seen_this_run)
    /\ \E item \in {[index |-> next_index, url |-> input[pos], kind |-> KindOf(input[pos])]} :
           /\ seen_this_run' = seen_this_run \cup {item.url}
           /\ cur' = item
           /\ assigned' = Append(assigned, item)
    /\ next_index' = next_index + 1
    /\ pc' = "item"
    /\ UNCHANGED <<pack, call, csv, csvExists, errs, coll, runs, input, pos, existing_urls,
                   failed_indices, buf, csv0, errs0, completed>>

\* src/1.py:438-447 and 457-458: the video path up to the ledger row
ProcessVideo ==
    /\ pc = "item"
    /\ cur.kind = "video"
    /\ \E rc \in {0, 1}, wrote \in BOOLEAN :
         \E title_for_csv \in {VideoCsvTitle(VideoTitleOf(cur.url))} :
         \E title_for_fs \in {IF title_for_csv # Blank THEN SafeTitle[title_for_csv] ELSE Blank} :
         \E r \in {download_video(cur.index, cur.url, title_for_fs, coll, rc, wrote)} :
             /\ coll' = r.dir
             /\ errs' = IF r.ok THEN errs
                        ELSE Append(errs, ErrRow(cur.index, cur.kind, cur.url, r.msg))
             /\ failed_indices' = IF r.ok THEN failed_indices
                                  ELSE Append(failed_indices, cur.index)
             /\ buf' = Append(buf, Row(cur.index, title_for_csv, cur.url))
             /\ cur' = [index |-> cur.index, url |-> cur.url, kind |-> cur.kind,
                        unhandled |-> FALSE, rc |-> rc,
                        produced |-> r.produced]
    /\ pc' = "sync"
    /\ UNCHANGED <<pack, call, csv, csvExists, runs, input, pos, existing_urls, seen_this_run,
                   next_index, csv0, errs0, assigned, completed>>

\* variant: the handler of the outer try writes the error row and no ledger row
UnhandledVideo_NoRow ==
    /\ pc = "item"
    /\ cur.kind = "video"
    /\ errs' = Append(errs, ErrRow(cur.index, cur.kind, cur.url, "Unhandled"))
    /\ failed_indices' = Append(failed_indices, cur.index)
    /\ cur' = [index |-> cur.index, url |-> cur.url, kind |-> cur.kind,
               unhandled |-> TRUE, rc |-> 1, produced |-> FALSE]
    /\ pc' = "sync"
    /\ UNCHANGED <<pack, call, csv, csvExists, coll, runs, input, pos, existing_urls,
                   seen_this_run, next_index, csv0, errs0, assigned, completed, buf>>

\* src/1.py:439-444 raising (yt-dlp missing, metadata that is no JSON object),
\* then 465-468: the handler of the outer try
UnhandledVideo ==
    /\ pc = "item"
    /\ cur.kind = "video"
    /\ errs' = Append(errs, ErrRow(cur.index, cur.kind, cur.url, "Unhandled"))
    /\ failed_indices' = Append(failed_indices, cur.index)
    /\ buf' = Append(buf, Row(cur.index, Blank, cur.url))
    /\ cur' = [index |-> cur.index, url |-> cur.url, kind |-> cur.kind,
               unhandled |-> TRUE, rc |-> 1, produced |-> FALSE]
    /\ pc' = "sync"
    /\ UNCHANGED <<pack, call, csv, csvExists, coll, runs, input, pos, existing_urls,
                   seen_this_run, next_index, csv0, errs0, assigned, completed>>

\* variant: a failed slideshow ends the run
ProcessPhoto_Abort ==
    /\ pc = "item"
    /\ cur.kind = "photo"
    /\ \E rc \in {0, 1}, images \in BOOLEAN, raw \in RAW_PHOTO_TITLES,
          audio \in BOOLEAN, fallback \in FALLBACKS :
         \E r \in {process_slideshow(cur.index, cur.url, coll, rc, images, raw,
                                     audio, fallback)} :
             /\ coll' = r.dir
             /\ errs' = IF r.raised
                        THEN Append(errs, ErrRow(cur.index, cur.kind, cur.url, r.msg))
                        ELSE errs
             /\ failed_indices' = IF r.raised THEN Append(failed_indices, cur.index)
                                  ELSE failed_indices
             /\ buf' = IF r.raised THEN <<>> ELSE Append(buf, Row(cur.index, r.title, cur.url))
             /\ cur' = [index |-> cur.index, url |-> cur.url, kind |-> cur.kind,
                        unhandled |-> FALSE, rc |-> rc,
                        produced |-> images /\ (audio \/ fallback # "raise"),
                        images |-> images,
                        sound |-> r.sound,
                        fallback |-> IF images /\ ~audio THEN fallback ELSE "unused"]
             /\ pc' = IF r.raised THEN "crashed" ELSE "sync"
    /\ UNCHANGED <<pack, call, csv, csvExists, runs, input, pos, existing_urls, seen_this_run,
                   next_index, csv0, errs0, assigned, completed>>

\* src/1.py:449-458: the photo path up to the ledger row
ProcessPhoto ==
    /\ pc = "item"
    /\ cur.kind = "photo"
    /\ \E rc \in {0, 1}, images \in BOOLEAN, raw \in RAW_PHOTO_TITLES,
          audio \in BOOLEAN, fallback \in FALLBACKS :
         \E r \in {process_slideshow(cur.index, cur.url, coll, rc, images, raw,
                                     audio, fallback)} :
             /\ coll' = r.dir
             /\ errs' = IF r.raised
                        THEN Append(errs, ErrRow(cur.index, cur.kind, cur.url, r.msg))
                        ELSE errs
             /\ failed_indices' = IF r.raised THEN Append(failed_indices, cur.index)
                                  ELSE failed_indices
             /\ buf' = Append(buf, Row(cur.index, r.title, cur.url))
             /\ cur' = [index |-> cur.index, url |-> cur.url, kind |-> cur.kind,
                        unhandled |-> FALSE, rc |-> rc,
                        produced |-> images /\ (audio \/ fallback # "raise"),
                        images |-> images,
                        sound |-> r.sound,
                        fallback |-> IF images /\ ~audio THEN fallback ELSE "unused"]
    /\ pc' = "sync"
    /\ UNCHANGED <<pack, call, csv, csvExists, runs, input, pos, existing_urls, seen_this_run,
                   next_index, csv0, errs0, assigned, completed>>

\* src/1.py:459-463 (and 469-470 in the handler): flush, fsync, remember the URL
SyncRow ==
    /\ pc = "sync"
    /\ csv' = SyncedCsv(csv, buf)
    /\ buf' = <<>>
    /\ existing_urls' = IF cur.unhandled THEN existing_urls
                        ELSE existing_urls \cup {cur.url}
    /\ pos' = pos + 1
    /\ completed' = completed + 1
    /\ cur' = NoItem
    /\ pc' = "loop"
    /\ UNCHANGED <<pack, call, csvExists, errs, coll, runs, input, seen_this_run, next_index,
                   failed_indices, csv0, errs0, assigned>>

\* src/1.py:472-473: the loop is over, the file is closed
Finish ==
    /\ pc = "loop"
    /\ pos > Len(input)
    /\ csv' = SyncedCsv(csv, buf)
    /\ buf' = <<>>
    /\ pc' = "done"
    /\ UNCHANGED <<pack, call, csvExists, errs, coll, runs, input, pos, existing_urls,
                   seen_this_run, next_index, failed_indices, cur, csv0, errs0,
                   assigned, completed>>

\* the process dies: what was written and not flushed is lost
Crash ==
    /\ pc \in {"loop", "item", "sync"}
    /\ buf' = <<>>
    /\ cur' = NoItem
    /\ pc' = "crashed"
    /\ UNCHANGED <<pack, call, csv, csvExists, errs, coll, runs, input, pos, existing_urls,
                   seen_this_run, next_index, failed_indices, csv0, errs0,
                   assigned, completed>>

Step ==
    \/ EditLinks
    \/ StartRun
    \/ SkipUrl
    \/ AssignIndex
    \/ ProcessVideo
    \/ UnhandledVideo
    \/ ProcessPhoto
    \/ SyncRow
    \/ Finish

Next == Step \/ Crash

Spec == Init /\ [][Next]_vars

\* the run as the code schedules it: sequential, each step follows the last
LiveSpec == Init /\ [][Step]_vars /\ WF_vars(Step)

\* ------------------------------------------------------ the pack tool's run
\* The collections and ledgers pack may find: any subset of a few items
\* (an orchestrator-style name, bare "<index>.mp4" files, folders, two items
\* with one index, a left-over temporary folder) and any short sequence of
\* rows (any order, repeated or non-numeric index cells, indices with no item).
PACK_ITEMS ==
    {Item(<<"1", ".", " ", "Clip", ".", "mp4">>, "file", "1234567890123"),
     Item(<<"3", ".", "mp4">>, "file", "2234567890123"),
     Item(<<"3", " ", "Clip">>, "dir", "3234567890123"),
     Item(<<"4">>, "dir", "4234567890123"),
     Item(<<"5", ".", "mp4">>, "file", "5234567890123"),
     Item(<<"_t_", "3234567890123">>, "dir", "6234567890123")}

PACK_ROWS ==
    {[index |-> <<"1">>, title |-> TitleReal, url |-> UrlVideo1],
     [index |-> <<"3">>, title |-> Blank, url |-> UrlVideo2],
     [index |-> <<"4">>, title |-> Blank, url |-> UrlPhoto1],
     [index |-> <<"5">>, title |-> Blank, url |-> UrlVideo2],
     [index |-> <<"Index">>, title |-> Blank, url |-> UrlVideo1]}

PackInit ==
    /\ coll \in SUBSET PACK_ITEMS
    /\ \E n \in 0..MaxRows : csv \in [1..n -> PACK_ROWS]
    /\ csvExists = TRUE
    /\ pack = PackIdle
    /\ call = NoCall
    /\ errs = <<>>
    /\ pc = "idle"
    /\ runs = 0
    /\ input = <<>>
    /\ pos = 1
    /\ existing_urls = {}
    /\ seen_this_run = {}
    /\ next_index = 1
    /\ failed_indices = <<>>
    /\ buf = <<>>
    /\ cur = NoItem
    /\ csv0 = <<>>
    /\ errs0 = <<>>
    /\ assigned = <<>>
    /\ completed = 0

\* src/Utility Functions/pack_indices.py:197-213: list the items; nothing to do
\* without an indexed item; else the mapping, and the renames unless the
\* indices are 1..N already
PackStart ==
    /\ pack.pc = "idle"
    /\ \E itp \in {list_items(coll)} :
         pack' = IF DOMAIN itp = {}
                 THEN [pack EXCEPT !.pc = "done", !.coll_at_start = coll,
                                   !.csv_at_start = csv,
                                   !.coll_first = IF pack.run = 1 THEN coll ELSE @,
                                   !.csv_first = IF pack.run = 1 THEN csv ELSE @]
                 ELSE [pack EXCEPT
                       !.pc = IF contiguous(itp) THEN "csv" ELSE "phase1",
                       !.index_to_path = itp,
                       !.mapping = compute_new_indices(itp),
                       !.moved = <<>>,
                       !.done = 0,
                       !.coll_at_start = coll,
                       !.csv_at_start = csv,
                       !.coll_first = IF pack.run = 1 THEN coll ELSE @,
                       !.csv_first = IF pack.run = 1 THEN csv ELSE @]
    /\ UNCHANGED orchVars

\* src/Utility Functions/pack_indices.py:102-122: one turn of the first loop
Phase1Rename ==
    /\ pack.pc = "phase1"
    /\ \E old_idx \in {k \in DOMAIN pack.index_to_path :
                         Cardinality({j \in DOMAIN pack.index_to_path : j <= k})
                             = Len(pack.moved) + 1} :
       \E p \in {pack.index_to_path[old_idx]} :
       \E tmp_name \in {IF TmpName(p, old_idx, pack.run) \in Names(coll)
                        THEN UniqueTmpName(p, old_idx, pack.run)
                        ELSE TmpName(p, old_idx, pack.run)} :
         /\ coll' = Rename(coll, p.name, tmp_name)
         /\ pack' = [pack EXCEPT
                !.moved = Append(@, [tmp |-> tmp_name,
                                     final |-> build_final_name(p.name, pack.mapping[old_idx])]),
                !.pc = IF Len(pack.moved) + 1 = Cardinality(DOMAIN pack.index_to_path)
                       THEN "phase2" ELSE "phase1"]
    /\ UNCHANGED <<call, csv, csvExists, errs, pc, runs, input, pos, existing_urls,
                   seen_this_run, next_index, failed_indices, buf, cur, csv0,
                   errs0, assigned, completed>>

\* The second loop without its test of final_path.exists()
Phase2Rename_NoExistsTest ==
    /\ pack.pc = "phase2"
    /\ \E m \in {pack.moved[pack.done + 1]} :
         coll' = Rename(coll, m.tmp, m.final)
    /\ pack' = [pack EXCEPT
           !.done = @ + 1,
           !.pc = IF pack.done + 1 = Len(pack.moved) THEN "csv" ELSE "phase2"]
    /\ UNCHANGED <<call, csv, csvExists, errs, pc, runs, input, pos, existing_urls,
                   seen_this_run, next_index, failed_indices, buf, cur, csv0,
                   errs0, assigned, completed>>

\* src/Utility Functions/pack_indices.py:125-136: one turn of the second loop
Phase2Rename ==
    /\ pack.pc = "phase2"
    /\ \E m \in {pack.moved[pack.done + 1]} :
       \E existing \in {{q \in coll : q.name = m.final}} :
       \E final_name \in {IF existing # {}
                          THEN ConflictName(m.final, (CHOOSE q \in existing : TRUE).kind)
                          ELSE m.final} :
         coll' = Rename(coll, m.tmp, final_name)
    /\ pack' = [pack EXCEPT
           !.done = @ + 1,
           !.pc = IF pack.done + 1 = Len(pack.moved) THEN "csv" ELSE "phase2"]
    /\ UNCHANGED <<call, csv, csvExists, errs, pc, runs, input, pos, existing_urls,
                   seen_this_run, next_index, failed_indices, buf, cur, csv0,
                   errs0, assigned, completed>>

\* src/Utility Functions/pack_indices.py:218-228: the ledger is rewritten if it
\* has rows
PackCsv ==
    /\ pack.pc = "csv"
    /\ csv' = IF load_csv(csvExists, csv) # <<>>
              THEN sync_csv_to_mapping(load_csv(csvExists, csv), pack.mapping,
                                       DOMAIN pack.index_to_path)
              ELSE csv
    /\ pack' = [pack EXCEPT !.pc = "done"]
    /\ UNCHANGED <<call, csvExists, errs, coll, pc, runs, input, pos, existing_urls,
                   seen_this_run, next_index, failed_indices, buf, cur, csv0,
                   errs0, assigned, completed>>

PackNext == PackStart \/ Phase1Rename \/ Phase2Rename \/ PackCsv

PackSpec == PackInit /\ [][PackNext]_vars

\* ------------------------------------------- pack again, and the archive
\* Pack started again after it has ended or was stopped between its first
\* rename and the rewrite of the ledger, and the archive builder run before,
\* between and after.
MaxPacks == 2
MaxRepackRows == 2

\* the collections of PackInit with the shorter ledgers
RepackInit == PackInit /\ Len(csv) <= MaxRepackRows

packReset ==
    [pack EXCEPT !.pc = "idle", !.run = @ + 1, !.index_to_path = <<>>,
                 !.mapping = <<>>, !.moved = <<>>, !.done = 0]

\* src/Utility Functions/pack_indices.py:252-253, the script is started again
PackAgain ==
    /\ pack.pc = "done"
    /\ pack.run < MaxPacks
    /\ pack' = packReset
    /\ UNCHANGED orchVars

\* src/Utility Functions/pack_indices.py:121-136 and 215-228: the process
\* ends after a rename and before write_csv; what it held in memory is lost
PackCrash ==
    /\ pack.pc \in {"phase1", "phase2", "csv"}
    /\ pack.moved # <<>>
    /\ pack.run < MaxPacks
    /\ pack' = [packReset EXCEPT !.interrupted = TRUE]
    /\ UNCHANGED orchVars

\* src/build_archive.py:87-97, a folder named idx or starting with "idx."
find_slideshow_dir_for_index(dir, idx) ==
    {p \in dir : /\ p.kind = "dir"
                 /\ \/ p.name = Str(idx)
                    \/ IsPrefix(Str(idx) \o <<".">>, p.name)}

\* src/build_archive.py:99-105, a file starting with "idx." with a video suffix
find_video_for_index(dir, idx) ==
    {p \in dir : /\ p.kind = "file"
                 /\ IsPrefix(Str(idx) \o <<".">>, p.name)
                 /\ HasExt(p.name, VIDEO_EXTS)}

\* src/build_archive.py:142-189, the indices that get a video card
VideoIndices(dir) ==
    {idx \in 1..9 : /\ find_slideshow_dir_for_index(dir, idx) = {}
                    /\ find_video_for_index(dir, idx) # {}}

\* src/build_archive.py:107-132: the cached picture if there is one, else a
\* new one from this video if ffmpeg succeeds
get_or_create_video_thumbnail(thumbs, idx, video, ffmpeg_ok) ==
    IF idx \in DOMAIN thumbs THEN thumbs
    ELSE IF ffmpeg_ok THEN [i \in DOMAIN thumbs \cup {idx} |->
                              IF i = idx THEN video.id ELSE thumbs[i]]
    ELSE thumbs

\* src/build_archive.py:586-592, one run of the archive builder: the cache
\* after it, and for every video card with a picture, the video of the card
\* and the video the picture was made from
Render ==
    /\ pack.pc \in {"idle", "done"}
    /\ \E ffmpeg_ok \in BOOLEAN :
         LET video(idx) == CHOOSE p \in find_video_for_index(coll, idx) : TRUE
             cache == [idx \in (DOMAIN pack.thumbs) \cup
                                {i \in VideoIndices(coll) : ffmpeg_ok} |->
                          get_or_create_video_thumbnail(pack.thumbs, idx, video(idx),
                                                        ffmpeg_ok)[idx]]
         IN  pack' = [pack EXCEPT
                 !.thumbs = cache,
                 !.shown = {[index |-> idx, video |-> video(idx).id,
                             thumbnail |-> cache[idx]] :
                               idx \in VideoIndices(coll) \cap DOMAIN cache}]
    /\ UNCHANGED orchVars

RepackNext == PackNext \/ PackAgain \/ PackCrash \/ Render

RepackSpec == RepackInit /\ [][RepackNext]_vars

\* ------------------------------------------------ helper functions alone
\* The helper functions of src/1.py applied to arguments drawn from bounded
\* sets: one call per behaviour.
SEGS == {"", "@alice", "@", "alice", "photo", "Photo", "video", "1234567890123", "12ab"}

PATHS == UNION {[1..n -> SEGS] : n \in 0..MaxSegs}

\* characters for the sanitizer: a letter, blank, dot, forbidden characters,
\* a full-width form of one, a control character, a reserved device name
SAN_TOKENS == {"a", " ", ".", "?", "/", "U+FF1F", "\t", "CON", "con"}

SAN_NAMES == UNION {[1..n -> SAN_TOKENS] : n \in 0..MaxName}

\* arguments for trim_fs_component, one character per token
TRIM_PREFIXES == {<<"7">>, <<"1", "2">>, <<"1", "2", "3">>}

TRIM_TITLES == UNION {[1..n -> {"a", ".", " "}] : n \in 0..MaxTrimTitle}

\* ---------------------------------------------------------- exit codes
\* The exit code of each script from what it is started with: argc is the
\* number of positional arguments, input_exists says whether every input file
\* it reads exists, setup_ok whether the tool or folder it needs is there.
\* A SystemExit with a message, and an exception nobody catches, end the
\* interpreter with code 1; an argparse error ends it with code 2.
MaxArgs == 3

SCRIPTS == {"1.py", "compare.py", "filter_tiktok_posts.py", "pack_indices.py",
            "build_archive.py"}

\* src/1.py:373-385 and 465-470: a missing yt-dlp is a failure of each item,
\* recorded in the errors ledger, and the run ends normally
main_exit(argc, input_exists, setup_ok) ==
    IF argc > 1 THEN 2
    ELSE IF ~input_exists THEN 2
    ELSE 0

\* src/Utility Functions/compare.py:31-37 and 7-10 (open raises)
compare_exit(argc, input_exists, setup_ok) ==
    IF argc # 2 THEN 1
    ELSE IF ~input_exists THEN 1
    ELSE 0

\* src/Utility Functions/filter_tiktok_posts.py:33-49
filter_tiktok_posts_exit(argc, input_exists, setup_ok) ==
    IF argc > 1 THEN 2
    ELSE IF ~input_exists THEN 1
    ELSE 0

\* src/Utility Functions/pack_indices.py:192-195 and 252-253
pack_indices_exit(argc, input_exists, setup_ok) ==
    IF ~setup_ok THEN 1 ELSE 0

\* src/build_archive.py:586-592
build_archive_exit(argc, input_exists, setup_ok) ==
    IF ~setup_ok THEN 1 ELSE 0

\* ------------------------------------------------------------- combine
\* src/Utility Functions/combine.py: the rows of ledger 2 whose URL ledger 1
\* does not have are appended to ledger 1 under new indices, and their items
\* are copied.  found: the indices of ledger 2 that have an item in
\* collection 2.  The result is the ledger written and the indices copied to.
MaxCombine == 2
MaxIndex1 == 3

\* src/Utility Functions/combine.py:98-147
combine_collections(df1, df2, found) ==
    LET urls1 == {df1[i].url : i \in DOMAIN df1}
        fresh == {i \in DOMAIN df2 : df2[i].url \notin urls1}
        first_index == IF df1 = <<>> THEN 0
                      ELSE MaxOf({IntOf(df1[i].index) : i \in DOMAIN df1}) + 1
        index_for(i) == first_index + Cardinality({j \in fresh : j < i})
        new_rows == [k \in 1..Cardinality(fresh) |->
                        LET i == CHOOSE j \in fresh : index_for(j) = first_index + k - 1
                        IN  Row(index_for(i), df2[i].title, df2[i].url)]
    IN  IF fresh = {} THEN [csv |-> df1, copied |-> {}]
        ELSE [csv |-> df1 \o new_rows,
              copied |-> {index_for(i) : i \in {j \in fresh : IntOf(df2[j].index) \in found}}]

\* Ledgers as the downloader writes them: ascending indices, one row per URL;
\* ledger 2 with the indices 1, 2, ...
COMBINE_CALLS ==
    {[fn |-> "combine_collections", df1 |-> d1, df2 |-> d2, found |-> f, done |-> FALSE] :
        d1 \in UNION {{[j \in 1..k |-> Row(idx[j], Blank, u[j])] :
                          idx \in {x \in [1..k -> 1..MaxIndex1] :
                                     \A a, b \in 1..k : a < b => x[a] < x[b]},
                          u \in {y \in [1..k -> URLS] :
                                   \A a, b \in 1..k : a # b => y[a] # y[b]}} :
                       k \in 0..MaxCombine},
        d2 \in UNION {{[j \in 1..k |-> Row(j, Blank, u[j])] :
                          u \in {y \in [1..k -> URLS] :
                                   \A a, b \in 1..k : a # b => y[a] # y[b]}} :
                       k \in 0..MaxCombine},
        f \in SUBSET (1..MaxCombine)}

CALLS ==
    COMBINE_CALLS
    \cup {[fn |-> "extract_post_id", url |-> u, done |-> FALSE] : u \in PATHS}
    \cup {[fn |-> "script", script |-> s, argc |-> n, input_exists |-> i,
      setup_ok |-> k, done |-> FALSE] :
        s \in SCRIPTS, n \in 0..MaxArgs, i \in BOOLEAN, k \in BOOLEAN}
    \cup {[fn |-> "is_slideshow", url |-> u, done |-> FALSE] : u \in PATHS}
    \cup {[fn |-> "sanitize", name |-> t, done |-> FALSE] : t \in SAN_NAMES}
    \cup {[fn |-> "trim", prefix |-> p, title |-> t, limit |-> l,
           reserve_ext |-> r, done |-> FALSE] :
             p \in TRIM_PREFIXES, t \in TRIM_TITLES, l \in 0..MaxLimit,
             r \in (-1)..MaxReserve}

FnInit ==
    /\ call \in CALLS
    /\ pack = PackIdle
    /\ csv = <<>>
    /\ csvExists = FALSE
    /\ errs = <<>>
    /\ coll = {}
    /\ pc = "idle"
    /\ runs = 0
    /\ input = <<>>
    /\ pos = 1
    /\ existing_urls = {}
    /\ seen_this_run = {}
    /\ next_index = 1
    /\ failed_indices = <<>>
    /\ buf = <<>>
    /\ cur = NoItem
    /\ csv0 = <<>>
    /\ errs0 = <<>>
    /\ assigned = <<>>
    /\ completed = 0

fnOther == <<csv, csvExists, errs, coll, pc, runs, input, pos, existing_urls,
             seen_this_run, next_index, failed_indices, buf, cur, csv0, errs0,
             assigned, completed, pack>>

\* src/1.py:434, kind = "photo" if is_slideshow(url_clean) else "video"
CallIsSlideshow ==
    /\ call.fn = "is_slideshow"
    /\ ~call.done
    /\ call' = [fn |-> call.fn, url |-> call.url, done |-> TRUE, out |-> KindOf(call.url)]
    /\ UNCHANGED fnOther

\* src/1.py:443 and 233, a call of the sanitizer
CallSanitize ==
    /\ call.fn = "sanitize"
    /\ ~call.done
    /\ call' = [fn |-> call.fn, name |-> call.name, done |-> TRUE,
                out |-> sanitize_filename_keep_readables(call.name)]
    /\ UNCHANGED fnOther

\* src/1.py:234, 290 and 293, a call of trim_fs_component
CallTrim ==
    /\ call.fn = "trim"
    /\ ~call.done
    /\ call' = [fn |-> call.fn, prefix |-> call.prefix, title |-> call.title,
                limit |-> call.limit, reserve_ext |-> call.reserve_ext,
                done |-> TRUE,
                out |-> trim_fs_component(call.prefix, call.title, call.limit,
                                          call.reserve_ext)]
    /\ UNCHANGED fnOther

\* One start of a script, up to its exit
CallScript ==
    /\ call.fn = "script"
    /\ ~call.done
    /\ call' = [fn |-> call.fn, script |-> call.script, argc |-> call.argc,
                input_exists |-> call.input_exists, setup_ok |-> call.setup_ok,
                done |-> TRUE,
                out |-> CASE call.script = "1.py" ->
                               main_exit(call.argc, call.input_exists, call.setup_ok)
                          [] call.script = "compare.py" ->
                               compare_exit(call.argc, call.input_exists, call.setup_ok)
                          [] call.script = "filter_tiktok_posts.py" ->
                               filter_tiktok_posts_exit(call.argc, call.input_exists,
                                                        call.setup_ok)
                          [] call.script = "pack_indices.py" ->
                               pack_indices_exit(call.argc, call.input_exists,
                                                 call.setup_ok)
                          [] OTHER ->
                               build_archive_exit(call.argc, call.input_exists,
                                                  call.setup_ok)]
    /\ UNCHANGED fnOther

\* src/1.py:256, post_id = extract_post_id(url)
CallExtractPostId ==
    /\ call.fn = "extract_post_id"
    /\ ~call.done
    /\ call' = [fn |-> call.fn, url |-> call.url, done |-> TRUE,
                out |-> extract_post_id(call.url)]
    /\ UNCHANGED fnOther

\* src/Utility Functions/combine.py:163-164
CallCombine ==
    /\ call.fn = "combine_collections"
    /\ ~call.done
    /\ call' = [fn |-> call.fn, df1 |-> call.df1, df2 |-> call.df2,
                found |-> call.found, done |-> TRUE,
                out |-> combine_collections(call.df1, call.df2, call.found)]
    /\ UNCHANGED fnOther

FnNext ==
    \/ CallIsSlideshow
    \/ CallSanitize
    \/ CallTrim
    \/ CallScript
    \/ CallExtractPostId
    \/ CallCombine

FnSpec == FnInit /\ [][FnNext]_vars

(***************************************************************************)
(* The archive page, src/build_archive.py.  Text is a tuple of tokens: a   *)
(* title is a tuple of characters, a page is the tuple of the pieces that  *)
(* full_document lays out.  write_html runs once per pass over the same    *)
(* item list; the page on disk is call.page.                               *)
(***************************************************************************)
MaxItems == 2
MaxTitle == 2
MaxPasses == 2

BACKSLASH == "\\"
NL == "\n"
GRID_BEGIN == "<!-- BEGIN GRID -->"
GRID_END == "<!-- END GRID -->"
ITEM_S == " item(s)"

\* src/build_archive.py:195-199, the four replacements of the title
HtmlEscape(title) ==
    [i \in DOMAIN title |->
        CASE title[i] = "&" -> "&amp;"
          [] title[i] = "<" -> "&lt;"
          [] title[i] = ">" -> "&gt;"
          [] title[i] = "\"" -> "&quot;"
          [] OTHER -> title[i]]

\* src/build_archive.py:193-254, one card; the title block is left out when
\* the title is empty
render_item_card(item) ==
    LET title == HtmlEscape(item.title)
        badge == IF item.type = "video" THEN "VIDEO" ELSE "SLIDESHOW"
        title_html == IF title # <<>>
                      THEN <<"<div class='title'>">> \o title \o <<"</div>">>
                      ELSE <<>>
    IN  <<NL, "<article ", item.type, ">">> \o title_html
           \o <<badge, "#">> \o Str(item.index) \o <<"</article>", NL>>

\* src/build_archive.py:256-257, the cards joined with newlines
RECURSIVE render_grid(_)
render_grid(items) ==
    IF items = <<>> THEN <<>>
    ELSE IF Len(items) = 1 THEN render_item_card(items[1])
    ELSE render_item_card(items[1]) \o <<NL>> \o render_grid(Tail(items))

\* src/build_archive.py:259-536, the header with the item count and the grid
\* between its two markers
full_document(items, grid_html) ==
    <<"<header>">> \o Str(Len(items)) \o <<ITEM_S, "</header>", GRID_BEGIN, NL>>
        \o grid_html \o <<NL, GRID_END, "</main>">>

\* Python's re template expansion, applied by pattern.sub to its replacement
\* string: backslash-n is a newline, two backslashes are one, a backslash
\* before another ASCII letter or at the end is an error, a backslash before
\* any other character stays.
ASCII_LETTERS == {"n", "x"}

RECURSIVE ExpandTemplate(_)
ExpandTemplate(s) ==
    IF s = <<>> THEN [ok |-> TRUE, text |-> <<>>]
    ELSE IF s[1] # BACKSLASH
    THEN LET r == ExpandTemplate(Tail(s))
         IN  [ok |-> r.ok, text |-> <<s[1]>> \o r.text]
    ELSE IF Len(s) = 1 THEN [ok |-> FALSE, text |-> <<>>]
    ELSE LET r == ExpandTemplate(Tail(Tail(s)))
         IN  CASE s[2] = "n" -> [ok |-> r.ok, text |-> <<NL>> \o r.text]
               [] s[2] = BACKSLASH -> [ok |-> r.ok, text |-> <<BACKSLASH>> \o r.text]
               [] s[2] \in ASCII_LETTERS \ {"n"} -> [ok |-> FALSE, text |-> <<>>]
               [] OTHER -> [ok |-> r.ok, text |-> <<s[1], s[2]>> \o r.text]

PositionsOf(text, tok) == {i \in DOMAIN text : text[i] = tok}

\* src/build_archive.py:557, the places where digits end before " item(s)"
CountPositions(text) ==
    {i \in DOMAIN text : IsDigit(text[i]) /\ i < Len(text) /\ text[i + 1] = ITEM_S}

\* The first place of the run of digits that ends at place i
DigitsStart(text, i) ==
    MinOf({j \in 1..i : \A k \in j..i : IsDigit(text[k])})

\* src/build_archive.py:556-561, re.sub with count=1 on the item count
ReplaceCount(text, item_count) ==
    LET cs == CountPositions(text)
    IN  IF cs = {} THEN text
        ELSE LET e == MinOf(cs)
                 b == DigitsStart(text, e)
             IN  SubSeq(text, 1, b - 1) \o Str(item_count)
                    \o SubSeq(text, e + 1, Len(text))

\* src/build_archive.py:543-562.  found: the pattern matched; ok: no re.error
update_existing_html(old_html, grid_html, item_count) ==
    LET begins == PositionsOf(old_html, GRID_BEGIN)
        ends == IF begins = {} THEN {}
                ELSE {e \in PositionsOf(old_html, GRID_END) : e > MinOf(begins)}
    IN  IF begins = {} \/ ends = {}
        THEN [found |-> FALSE, ok |-> TRUE, text |-> <<>>]
        ELSE LET b == MinOf(begins)
                 e == MinOf(ends)
                 new_grid_block == <<GRID_BEGIN, NL>> \o grid_html \o <<NL, GRID_END>>
                 r == ExpandTemplate(new_grid_block)
                 updated == SubSeq(old_html, 1, b - 1) \o r.text
                               \o SubSeq(old_html, e + 1, Len(old_html))
             IN  IF ~r.ok THEN [found |-> TRUE, ok |-> FALSE, text |-> <<>>]
                 ELSE [found |-> TRUE, ok |-> TRUE,
                       text |-> ReplaceCount(updated, item_count)]

\* src/build_archive.py:564-582.  An re.error leaves the page as it was and
\* ends the script with a traceback.
write_html(exists, old, items) ==
    LET grid_html == render_grid(items)
        patched == update_existing_html(old, grid_html, Len(items))
    IN  IF exists /\ patched.found
        THEN IF patched.ok THEN [page |-> patched.text, raised |-> FALSE]
             ELSE [page |-> old, raised |-> TRUE]
        ELSE [page |-> full_document(items, grid_html), raised |-> FALSE]

\* Titles come from the ledger's title column, src/build_archive.py:47-50
TITLE_CHARS == {"x", "n", BACKSLASH, "<"}

ARCHIVE_TITLES ==
    UNION {[1..k -> TITLE_CHARS] : k \in 0..MaxTitle}

\* src/build_archive.py:142-189, the item list: ascending indices
ARCHIVE_ITEMS ==
    UNION {{[i \in 1..k |-> [index |-> i, type |-> ty[i], title |-> ti[i]]] :
              ty \in [1..k -> {"video", "slideshow"}], ti \in [1..k -> ARCHIVE_TITLES]} :
           k \in 0..MaxItems}

\* A page from before the markers existed
OLD_PAGE == <<"<header>", "</header>", "</main>">>

ArchiveInit ==
    /\ \E items \in ARCHIVE_ITEMS, exists \in BOOLEAN :
          call = [fn |-> "write_html", items |-> items, exists |-> exists,
                  page |-> IF exists THEN OLD_PAGE ELSE <<>>,
                  pages |-> <<>>, raised |-> FALSE, done |-> FALSE]
    /\ pack = PackIdle
    /\ csv = <<>>
    /\ csvExists = FALSE
    /\ errs = <<>>
    /\ coll = {}
    /\ pc = "idle"
    /\ runs = 0
    /\ input = <<>>
    /\ pos = 1
    /\ existing_urls = {}
    /\ seen_this_run = {}
    /\ next_index = 1
    /\ failed_indices = <<>>
    /\ buf = <<>>
    /\ cur = NoItem
    /\ csv0 = <<>>
    /\ errs0 = <<>>
    /\ assigned = <<>>
    /\ completed = 0

\* src/build_archive.py:586-592, one run of the script over the same items
WriteHtml ==
    /\ call.fn = "write_html"
    /\ ~call.raised
    /\ Len(call.pages) < MaxPasses
    /\ LET r == write_html(call.exists, call.page, call.items)
       IN  call' = [call EXCEPT !.page = r.page, !.exists = TRUE,
                                !.raised = r.raised,
                                !.pages = Append(call.pages, r.page),
                                !.done = TRUE]
    /\ UNCHANGED fnOther

ArchiveNext == WriteHtml

ArchiveSpec == ArchiveInit /\ [][ArchiveNext]_vars

\* ============================================================== claims
\* helpers of the claims, independent of the operators that model the code
UrlsOf(rows) == {rows[i].url : i \in DOMAIN rows}

IndexOf(row) == IntOf(row.index)

IndicesOf(rows) == {IndexOf(rows[i]) : i \in DOMAIN rows}

LargestOr0(S) == IF S = {} THEN 0 ELSE CHOOSE m \in S : \A x \in S : x <= m

Ledger == csv \o buf

\* the URLs of the input that a run has to process: those not in the ledger
\* at its start, each at its first occurrence, in input order
RECURSIVE NewUrls(_, _)
NewUrls(links, known) ==
    IF links = <<>> THEN <<>>
    ELSE IF links[1] \in known THEN NewUrls(Tail(links), known)
         ELSE <<links[1]>> \o NewUrls(Tail(links), known \cup {links[1]})

Failed(index) == index \in Range(failed_indices)

\* C1: a URL already in the ledger, or seen earlier in the same run, is
\* skipped: it is assigned no index and written to no row, so no URL is in two
\* ledger rows, and a URL with a logged (failed) attempt is not attempted again.
C1_NoUrlTwice ==
    /\ \A i, j \in DOMAIN Ledger : Ledger[i].url = Ledger[j].url => i = j
    /\ \A k \in DOMAIN assigned : assigned[k].url \notin UrlsOf(csv0)
    /\ \A j, k \in DOMAIN assigned : assigned[j].url = assigned[k].url => j = k

\* a finished run whose input held a URL that a former run had logged as
\* failed, and a URL twice
C1_Witness ==
    /\ pc = "done"
    /\ \E i \in DOMAIN input : \E e \in DOMAIN errs0 :
         errs0[e].url = input[i] /\ input[i] \in UrlsOf(csv0)
    /\ \E i, j \in DOMAIN input : i < j /\ input[i] = input[j]

\* C2: the k-th URL a run processes gets index (largest index of the ledger
\* at the start of the run, 0 if none) + k, and the indices of the ledger are
\* unique and strictly increasing in row order, failed items included.
C2_NextIndex ==
    /\ \A k \in DOMAIN assigned : assigned[k].index = LargestOr0(IndicesOf(csv0)) + k
    /\ \A i, j \in DOMAIN Ledger : i < j => IndexOf(Ledger[i]) < IndexOf(Ledger[j])

\* a resumed run: the ledger held rows, a URL of the input was skipped, a new
\* URL got the next index, and a failed item is among the rows
C2_Witness ==
    /\ pc = "done"
    /\ csv0 # <<>>
    /\ \E i \in DOMAIN input : input[i] \in UrlsOf(csv0)
    /\ assigned # <<>>
    /\ assigned[1].index = Len(csv0) + 1
    /\ \E e \in DOMAIN errs : errs[e].index \in IndicesOf(csv)

\* C3: on the video path an item is Saved only if yt-dlp returned 0 and a
\* video file was produced for its stem; otherwise it is Failed with an
\* error row.  (Violated: a non-zero exit code with a file present is Saved.)
C3_SavedNeedsZeroExitAndFile ==
    (pc = "sync" /\ cur.kind = "video") =>
        /\ ~Failed(cur.index) => (cur.rc = 0 /\ cur.produced)
        /\ (cur.rc # 0 \/ ~cur.produced) =>
              /\ Failed(cur.index)
              /\ errs # <<>> /\ errs[Len(errs)].index = cur.index

\* C4: a URL that was assigned an index ends with exactly one ledger row,
\* which carries that index and that URL, whether Saved or Failed and
\* whichever path reported the failure.
C4_OneRowPerUrl ==
    \A k \in 1..completed :
        LET a == assigned[k]
            hits == {i \in DOMAIN csv : IndexOf(csv[i]) = a.index \/ csv[i].url = a.url}
        IN  /\ Cardinality(hits) = 1
            /\ \A i \in hits : IndexOf(csv[i]) = a.index /\ csv[i].url = a.url

\* a finished run with a Saved item, a failed video, a failed slideshow and
\* an unhandled exception between this run and the one before
C4_Witness ==
    /\ pc = "done"
    /\ completed >= 2
    /\ \E e \in DOMAIN errs : errs[e].msg = "Unhandled"
    /\ \E e \in DOMAIN errs : errs[e].msg = "No images found"
    /\ \E e \in DOMAIN errs : errs[e].msg = "No output video file found"
    /\ \E k \in 1..completed : ~Failed(assigned[k].index)

\* C5: the ledger row of a Failed item has a blank title, on the video path
\* too.  (Violated: a failed video keeps the title of the metadata query.)
C5_FailedRowBlank ==
    (pc = "sync" /\ Failed(cur.index)) => buf[Len(buf)].title = Blank

\* C6: errors.csv only grows; it gets exactly one row (index, kind, url) per
\* failed attempt and none for a Saved item, and the indices assigned do not
\* depend on the error rows written.
C6_OneErrorRowPerFailure ==
    /\ IsPrefix(errs0, errs)
    /\ Len(errs) = Len(errs0) + Len(failed_indices)
    /\ \A j, k \in DOMAIN failed_indices : failed_indices[j] = failed_indices[k] => j = k
    /\ \A j \in DOMAIN failed_indices :
         \E k \in DOMAIN assigned :
            /\ assigned[k].index = failed_indices[j]
            /\ errs[Len(errs0) + j].index = assigned[k].index
            /\ errs[Len(errs0) + j].url = assigned[k].url
            /\ errs[Len(errs0) + j].kind = assigned[k].kind
    /\ pc = "sync" => (Failed(cur.index) <=> (cur.unhandled \/ ~cur.produced))
    /\ \A k \in DOMAIN assigned : assigned[k].index = assigned[1].index + k - 1

\* a finished run in which a failed item was followed by a Saved one
C6_Witness ==
    /\ pc = "done"
    /\ \E j \in DOMAIN failed_indices : \E k \in DOMAIN assigned :
         /\ assigned[k].index > failed_indices[j]
         /\ ~Failed(assigned[k].index)

\* C7: no failure aborts the run: a run that has started ends, and at its end
\* every URL of the input that was not skipped has reached Saved or Failed,
\* in input order.
C7_RunTerminates ==
    (pc = "loop" /\ pos = 1) ~>
        (/\ pc = "done"
         /\ completed = Len(assigned)
         /\ [k \in DOMAIN assigned |-> assigned[k].url] = NewUrls(input, UrlsOf(csv0)))

\* a finished run that went on after a failure
C7_Witness ==
    /\ pc = "done"
    /\ Len(assigned) >= 2
    /\ Failed(assigned[1].index)
    /\ completed = Len(assigned)

\* C8: whenever the run may crash, the ledger on disk is the ledger the run
\* started from, unchanged, followed by exactly the rows of the URLs whose
\* processing has ended, in processing order.
C8_DurableRows ==
    /\ IsPrefix(csv0, csv)
    /\ Len(csv) = Len(csv0) + completed
    /\ \A k \in 1..completed :
         /\ IndexOf(csv[Len(csv0) + k]) = assigned[k].index
         /\ csv[Len(csv0) + k].url = assigned[k].url

\* a run over a non-empty ledger that crashed after one URL was done and while
\* the next was in progress
C8_Witness ==
    /\ pc = "crashed"
    /\ csv0 # <<>>
    /\ completed >= 1
    /\ Len(assigned) > completed

\* the indices that the names of a directory carry
DiskIndices(dir) ==
    {parse_index(p.name).idx : p \in {q \in dir : parse_index(q.name).found}}

\* C9: when pack has completed, whatever collection and ledger it started
\* from, the index cells of the ledger are 1..K in row order.  (Violated: with
\* no indexed item in the collection pack returns before it reads the ledger.)
C9_PackedLedgerContiguous ==
    pack.pc = "done" =>
        \A i \in DOMAIN csv : IsInt(csv[i].index) /\ IntOf(csv[i].index) = i

\* C10: the mapping pack computes has the indices found on disk as its
\* domain, is onto 1..N, preserves the order of the old indices (so it is a
\* bijection), and sends {1,3,4} to 1,2,3.
C10_MappingBijection ==
    pack.pc \in {"phase1", "phase2", "csv"} =>
        LET m == pack.mapping
            keys == DOMAIN pack.mapping
        IN  /\ pack.moved = <<>> => keys = DiskIndices(coll)
            /\ {m[i] : i \in keys} = 1..Cardinality(keys)
            /\ \A i, j \in keys : i < j => m[i] < m[j]
            /\ keys = {1, 3, 4} => (m[1] = 1 /\ m[3] = 2 /\ m[4] = 3)

\* pack has computed the mapping of a collection whose indices are 1, 3, 4
\* (two items carrying the 3)
C10_Witness ==
    /\ pack.pc = "phase1"
    /\ pack.moved = <<>>
    /\ DOMAIN pack.mapping = {1, 3, 4}
    /\ Cardinality({p \in coll : parse_index(p.name).found}) = 4

\* the rows of a ledger whose index cell is an integer carried by an item of dir
RowsWithItem(rows, dir) ==
    {i \in DOMAIN rows : IsInt(rows[i].index) /\ IntOf(rows[i].index) \in DiskIndices(dir)}

\* how many rows of a ledger, among those at the positions in at, have this
\* title and URL
CountOf(rows, at, title, url) ==
    Cardinality({i \in at : rows[i].title = title /\ rows[i].url = url})

\* C11: when pack has completed, the ledger holds exactly the rows it started
\* with whose index is carried by an item of the collection: a row is gone if
\* and only if no item carries its index.  (Violated: with no indexed item in
\* the collection pack returns before it reads the ledger, and drops nothing.)
C11_RowDroppedIffNoItem ==
    pack.pc = "done" =>
        LET before == pack.csv_at_start
            keep == RowsWithItem(before, pack.coll_at_start)
        IN  /\ Len(csv) = Cardinality(keep)
            /\ \A r \in PACK_ROWS :
                 CountOf(csv, DOMAIN csv, r.title, r.url)
                     = CountOf(before, keep, r.title, r.url)

\* C12: at most one item of the collection carries any given index, in every
\* state the orchestrator's runs reach, crashed and resumed runs included.
\* (Violated: a run resumed after a crash gives the index of the item whose
\* row was lost to the next URL, and the new item may get another name.)
C12_OneItemPerIndex ==
    \A p, q \in coll :
        (/\ parse_index(p.name).found
         /\ parse_index(q.name).found
         /\ parse_index(p.name).idx = parse_index(q.name).idx) => p = q

\* the positions of the non-empty segments of a path
Filled(path) == {i \in DOMAIN path : path[i] # ""}

\* C13: a URL is classified photo exactly if its path has three non-empty
\* segments, "@user", "photo" and an all-digit id, in this order (empty
\* segments, as a trailing slash leaves, do not count); all else is video.
C13_PhotoIffThreeSegments ==
    (call.fn = "is_slideshow" /\ call.done) =>
        /\ call.out \in {"photo", "video"}
        /\ call.out = "photo" <=>
              /\ Cardinality(Filled(call.url)) = 3
              /\ \E i, j, k \in Filled(call.url) :
                    /\ i < j /\ j < k
                    /\ call.url[i] \in {"@alice", "@"}
                    /\ call.url[j] = "photo"
                    /\ call.url[k] = "1234567890123"
        /\ call.url = <<"@alice", "video", "1234567890123">> => call.out = "video"
        /\ call.url = <<"@alice", "photo", "1234567890123", "alice">> => call.out = "video"

\* a photo URL with a trailing slash has been classified photo
C13_Witness ==
    /\ call.fn = "is_slideshow"
    /\ call.done
    /\ call.url = <<"@alice", "photo", "1234567890123", "">>
    /\ call.out = "photo"

\* C14: the sanitizer's output holds none of the forbidden characters, and
\* for an input that holds one the output is not empty (unless the input
\* is made of forbidden characters only).
C14_NoForbiddenNotEmpty ==
    (call.fn = "sanitize" /\ call.done) =>
        /\ \A j \in DOMAIN call.out : call.out[j] \notin FORBIDDEN
        /\ (/\ \E i \in DOMAIN call.name : call.name[i] \in FORBIDDEN
            /\ \E i \in DOMAIN call.name : call.name[i] \notin FORBIDDEN)
              => call.out # <<>>

\* a name with a forbidden character, its full-width form and blanks around
\* has been sanitized
C14_Witness ==
    /\ call.fn = "sanitize"
    /\ call.done
    /\ call.name = <<" ", "?", "U+FF1F", " ">>
    /\ call.out = <<"_", "_">>

\* the room trim_fs_component keeps for the extension, and whether the title
\* of the call had to be shortened
ReservedLen == IF call.reserve_ext > 0 THEN call.reserve_ext ELSE 0

FullLen ==
    Len(call.prefix) + (IF call.title = <<>> THEN 0 ELSE 2 + Len(call.title))

TitleShortened == call.title # <<>> /\ FullLen > call.limit - ReservedLen

C16_PrefixKeptNoTrailingDot ==
    (call.fn = "trim" /\ call.done) =>
        /\ TitleShortened => IsPrefix(call.prefix, call.out)
        /\ call.out # <<>> => call.out[Len(call.out)] \notin {".", " "}

\* C16, amended: the whole prefix is kept whenever the room (limit less the
\* reserved extension, at least 1) is not shorter than the prefix.
C16_PrefixKeptIfRoom ==
    (call.fn = "trim" /\ call.done) =>
        /\ (TitleShortened /\ Max2(1, call.limit - ReservedLen) >= Len(call.prefix))
              => IsPrefix(call.prefix, call.out)
        /\ call.out # <<>> => call.out[Len(call.out)] \notin {".", " "}

\* a title was cut in front of a dot or blank, which was then stripped, and
\* the prefix was kept
C16_Witness ==
    /\ call.fn = "trim"
    /\ call.done
    /\ TitleShortened
    /\ call.title = <<"a", ".", "a">>
    /\ call.out = call.prefix \o <<".", " ", "a">>


\* The part of a page from the BEGIN GRID marker to the END GRID marker
GridSection(page) ==
    LET begins == PositionsOf(page, GRID_BEGIN)
        ends == PositionsOf(page, GRID_END)
    IN  IF begins = {} \/ ends = {} THEN <<>>
        ELSE SubSeq(page, MinOf(begins), MinOf(ends))

\* The item-count text of a page
CountText(page) ==
    IF CountPositions(page) = {} THEN <<>>
    ELSE LET e == MinOf(CountPositions(page))
         IN  SubSeq(page, DigitsStart(page, e), e + 1)

\* C17: rendering the archive twice over the same items is idempotent: after
\* the second pass, which patches the page written by the first, the grid
\* section between the two markers and the item-count text are what the first
\* pass wrote, for every list of items and titles.
C17_SecondPassIdentical ==
    (call.fn = "write_html" /\ Len(call.pages) = MaxPasses) =>
        /\ GridSection(call.pages[2]) = GridSection(call.pages[1])
        /\ CountText(call.pages[2]) = CountText(call.pages[1])

\* What the toolkit's usage lines accept: the downloader and the filter take
\* at most one file, compare takes exactly two, the others take none and
\* ignore what they are given
UsageError(c) ==
    \/ c.script \in {"1.py", "filter_tiktok_posts.py"} /\ c.argc > 1
    \/ c.script = "compare.py" /\ c.argc # 2

MissingInput(c) ==
    c.script \in {"1.py", "compare.py", "filter_tiktok_posts.py"} /\ ~c.input_exists

\* The folder pack needs, the ffmpeg the archive builder needs
SetupError(c) ==
    c.script \in {"pack_indices.py", "build_archive.py"} /\ ~c.setup_ok

\* C18: every script exits with code 2 on a usage error or a missing input
\* file, with code 1 on a fatal setup error (a missing required tool or
\* collection folder), and with code 0 otherwise.
C18_ExitCodes ==
    (call.fn = "script" /\ call.done) =>
        call.out = IF UsageError(call) \/ MissingInput(call) THEN 2
                   ELSE IF SetupError(call) THEN 1
                   ELSE 0

\* the items of dir that carry the index n
ItemsAt(dir, n) == {p \in dir : parse_index(p.name).found /\ parse_index(p.name).idx = n}

\* The row of the ledger pack started from that the j-th row of the packed
\* ledger comes from: the kept rows in the order of their old index, rows of
\* the same index in their old order
OriginOf(before, keep, j) ==
    CHOOSE i \in keep :
        Cardinality({k \in keep :
            \/ IntOf(before[k].index) < IntOf(before[i].index)
            \/ IntOf(before[k].index) = IntOf(before[i].index) /\ k <= i}) = j

\* C19: after a pack that found indexed items, every kept ledger row carries
\* the new index that the mapping assigns to its old index, and the item of
\* the collection that carries that new index is an item that carried the
\* row's old index before the pack.
C19_RowsFollowMapping ==
    (pack.pc = "done" /\ DOMAIN pack.index_to_path # {}) =>
        LET before == pack.csv_at_start
            keep == RowsWithItem(before, pack.coll_at_start)
        IN  \A j \in DOMAIN csv :
                j <= Cardinality(keep) =>
                    LET old_idx == IntOf(before[OriginOf(before, keep, j)].index)
                        new_idx == pack.mapping[old_idx]
                    IN  /\ IsInt(csv[j].index)
                        /\ IntOf(csv[j].index) = new_idx
                        /\ ItemsAt(coll, new_idx) # {}
                        /\ \A q \in ItemsAt(coll, new_idx) :
                              \E p \in ItemsAt(pack.coll_at_start, old_idx) : p.id = q.id

\* While pack renames: the items not yet given their final name are all under
\* their temporary names, the temporary names differ from each other and from
\* every name the collection started with, no final rename happens before the
\* last temporary one, and no item is lost.
TwoPasses ==
    pack.pc \in {"phase1", "phase2", "csv", "done"} =>
        /\ \A i \in DOMAIN pack.moved : i > pack.done => pack.moved[i].tmp \in Names(coll)
        /\ \A i, j \in DOMAIN pack.moved :
              i # j => pack.moved[i].tmp # pack.moved[j].tmp
        /\ \A i \in DOMAIN pack.moved : pack.moved[i].tmp \notin Names(pack.coll_at_start)
        /\ pack.done > 0 => Len(pack.moved) = Cardinality(DOMAIN pack.index_to_path)
        /\ Cardinality(coll) = Cardinality(pack.coll_at_start)
        /\ {p.id : p \in coll} = {p.id : p \in pack.coll_at_start}

\* A step that changes the collection takes one name away and brings one name
\* that no item had
RenameToFreeName ==
    coll' # coll =>
        /\ Cardinality(Names(coll) \ Names(coll')) = 1
        /\ Cardinality(Names(coll') \ Names(coll)) = 1
        /\ Cardinality(coll') = Cardinality(coll)

\* C20: pack renames in two passes, every item first to a unique temporary
\* name and only after all of those renames to its final name; no rename
\* targets a name that exists at that moment, so no item is overwritten and the
\* collection has as many items after the pack as before.
C20_TwoPassNoOverwrite == []TwoPasses /\ [][RenameToFreeName]_vars

\* pack has renamed two items or more, one of them to a conflict name because
\* an item left alone had its final name
C20_Witness ==
    /\ pack.pc = "done"
    /\ Len(pack.moved) >= 2
    /\ pack.done = Len(pack.moved)
    /\ \E p \in coll : CONFLICT_TAG \in Range(p.name)

\* C21: on the photo path an item fails if and only if gallery-dl left no
\* image: a non-zero exit code with an image does not fail the item, and a
\* failure of the audio-only fallback never fails an item that has images (it
\* is Saved, without a sound file).  (Violated: when the fallback's yt-dlp
\* cannot be started the exception fails the item although it has images.)
C21_PhotoFailsIffNoImage ==
    (pc = "sync" /\ cur.kind = "photo") =>
        /\ Failed(cur.index) <=> ~cur.images
        /\ (cur.images /\ cur.fallback \in {"none", "raise"}) =>
              (~Failed(cur.index) /\ ~cur.sound)

\* C22: after the photo path has finished for a URL, Saved or Failed, the
\* temporary directory made for that URL is gone.  (Violated: the exception
\* for a slideshow without images leaves process_slideshow before the rmtree.)
C22_TmpDirGone ==
    (pc = "sync" /\ cur.kind = "photo") =>
        TmpDirName(extract_post_id(cur.url)) \notin Names(coll)

\* C23: the sanitizer's output never begins or ends with a dot or a space and
\* holds no run of two or more spaces, whatever the input.  (Violated: line 64
\* strips white space only, so a leading or trailing dot stays.)
C23_NoEdgeDotOrSpace ==
    (call.fn = "sanitize" /\ call.done) =>
        /\ call.out # <<>> =>
              /\ call.out[1] \notin {".", " "}
              /\ call.out[Len(call.out)] \notin {".", " "}
        /\ \A i \in DOMAIN call.out :
              i > 1 => ~(call.out[i] = " " /\ call.out[i - 1] = " ")

\* what stands before the first dot of a name
LeadingSegment(t) == SubSeq(t, 1, FirstDot(t) - 1)

\* C26: the part of the sanitizer's output before its first dot is never a
\* Windows reserved device name, whatever the case of its letters, also for
\* inputs like "CON.txt".  (Violated: the "_" is appended to the whole string,
\* so "CON.txt" becomes "CON.txt_", whose leading segment is still "CON".)
C26_LeadingSegmentNotReserved ==
    (call.fn = "sanitize" /\ call.done) =>
        ~(/\ Len(LeadingSegment(call.out)) = 1
          /\ Upper(LeadingSegment(call.out)[1]) \in WINDOWS_RESERVED)

\* C27: the sanitizer is idempotent: sanitizing its output gives the output
\* again, so sanitizing a title in main and again in download_video names the
\* file as one sanitization would.  (Violated: "CON.txt_" gets a second "_".)
C27_SanitizeIdempotent ==
    (call.fn = "sanitize" /\ call.done) =>
        sanitize_filename_keep_readables(call.out) = call.out

\* the places of a path whose segment is a run of 8 or more digits
IdPlaces(path) == {i \in DOMAIN path : path[i] \in ID_SEGS}

\* C24: the post identifier extracted from a URL is the last run of 8 or more
\* digits anywhere in its path, and the time-derived identifier is used only
\* when the path has no such run.  (Violated: the run is found only in the last
\* segment, or before one trailing slash.)
C24_LastRunOfDigits ==
    (call.fn = "extract_post_id" /\ call.done) =>
        call.out = IF IdPlaces(call.url) # {}
                   THEN call.url[MaxOf(IdPlaces(call.url))]
                   ELSE FALLBACK_ID

\* C25: when combine merges collection 2 into collection 1 the new rows get
\* consecutive indices from the next index of ledger 1, its largest index plus
\* one or 1 when it has no rows, so every row of ledger 1 keeps a unique
\* positive index.  (Violated: with an empty ledger 1 the first new index is 0.)
C25_CombineIndices ==
    (call.fn = "combine_collections" /\ call.done) =>
        LET old == call.df1
            new == call.out.csv
            first == IF old = <<>> THEN 1 ELSE LargestOr0(IndicesOf(old)) + 1
        IN  /\ SubSeq(new, 1, Len(old)) = old
            /\ \A k \in DOMAIN new :
                  k > Len(old) => IndexOf(new[k]) = first + (k - Len(old) - 1)
            /\ \A j, k \in DOMAIN new : IndexOf(new[j]) = IndexOf(new[k]) => j = k
            /\ \A k \in DOMAIN new : IndexOf(new[k]) >= 1

\* C28: pack is idempotent: a pack started right after a completed pack
\* renames no item and leaves the rows of the ledger as they are, whatever the
\* ledger and the collection.  (Violated: of two items with one index pack
\* leaves one alone, and the second pack gives it an index of its own.)
C28_SecondPackChangesNothing ==
    (pack.pc = "done" /\ pack.run = 2 /\ ~pack.interrupted) =>
        /\ coll = pack.coll_at_start
        /\ csv = pack.csv_at_start
        /\ pack.moved = <<>>

\* the items of dir under a temporary name of pack
TmpNamed(dir) == {p \in dir : p.name[1] = TMP_TAG}

\* C29: when pack was interrupted between its first rename and the rewrite of
\* the ledger and is then run to its end, every item that carried an index
\* before the interruption carries one again, none is left under a temporary
\* name, and the row of every such item is still in the ledger.  (Violated:
\* the second run does not look at items under a temporary name.)
C29_RerunRecovers ==
    (pack.pc = "done" /\ pack.run = 2 /\ pack.interrupted) =>
        /\ TmpNamed(coll) = {}
        /\ \A p \in pack.coll_first :
              parse_index(p.name).found =>
                  \E q \in coll : q.id = p.id /\ parse_index(q.name).found
        /\ Len(csv) = Cardinality(RowsWithItem(pack.csv_first, pack.coll_first))

\* C30: after any sequence of renderings and packs, the cached thumbnail on
\* the card of the video at index i was made from the video file that carries
\* index i when the page is rendered.  (Violated: the cache is keyed by the
\* index alone, and pack moves another video to the index.)
C30_ThumbnailOfItsVideo ==
    \A c \in pack.shown : c.thumbnail = c.video

====
